---- MODULE Spec2Model ----
(***************************************************************************)
(* Rekordbox -> Plex playlist reconciliation (app.py: main and the index   *)
(* builders).  Strings that the code converts (titles: str.lower, part     *)
(* paths: os.path.basename) are sequences of one-character strings, so     *)
(* that the conversions are computed; playlist names, which the code only  *)
(* compares, are plain strings.  A target track is its ratingKey.          *)
(***************************************************************************)
EXTENDS Integers, Sequences, FiniteSets, TLC

VARIABLES
    pc,                      \* position of main(): start, loaded, connected, track_map, loop, done, aborted
    run,                     \* "first" or "second" invocation of main() against the same server
    source,                  \* what the rekordbox library returns from getPlaylists()
    plex_sections,           \* target server: library sections with their tracks
    plex_playlists,          \* target server: playlists in listing order
    pl,                      \* main(): pl
    track_map,               \* main(): track_map
    playlist_map,            \* main(): playlist_map
    i,                       \* main(): position of the for loop over pl (1-based)
    created_playlists,       \* main(): created_playlists
    updated_playlists,       \* main(): updated_playlists
    skipped_playlists,       \* main(): skipped_playlists
    smart_playlists_skipped, \* main(): smart_playlists_skipped
    not_found_tracks,        \* main(): not_found_tracks
    not_found_file,          \* not-found.json: whether it exists, and what it holds
    calls,                   \* calls on the server's playlists issued by the loop of this run
    prev,                    \* summary of the previous run, recorded when main() is started again
    m_in,                    \* matcher harness: the source track handed to the matcher
    m_out,                   \* matcher harness: the matcher's result
    caller,                  \* "cli": app.py run as a script; "lib": main() run by sync_playlists
    lib_verbose,             \* sync_playlists: verbose
    sys_argv,                \* sys.argv
    original_argv,           \* _run_sync: original_argv
    result,                  \* what sync_playlists returned (NoResult until it returns)
    events                   \* the events the Logger has handed to _emit_event, in order

vars == <<pc, run, source, plex_sections, plex_playlists, pl, track_map, playlist_map, i,
          created_playlists, updated_playlists, skipped_playlists, smart_playlists_skipped,
          not_found_tracks, not_found_file, calls, prev, m_in, m_out,
          caller, lib_verbose, sys_argv, original_argv, result, events>>

\* ------------------------------------------------------------------ bounds
MaxPlaylists == 2

MaxTracks == 2

\* ------------------------------------------------------------------ values
\* Python None of an Optional[str] field; str(None) is 'None'.
None == <<"None">>

\* dict.get() without a hit: no track.
NoTrack == 0

NoFile == [exists |-> FALSE, content |-> <<>>]

\* Python truthiness of an Optional[str]: neither None nor ''.
Truthy(s) == s # None /\ s # <<>>

LowerChar(c) ==
    CASE c = "A" -> "a"
      [] c = "B" -> "b"
      [] c = "Q" -> "q"
      [] OTHER -> c

\* str.lower()
Lower(s) == [k \in 1..Len(s) |-> LowerChar(s[k])]

LastSep(p) ==
    LET S == {k \in 1..Len(p) : p[k] = "/"}
    IN  IF S = {} THEN 0 ELSE CHOOSE k \in S : \A j \in S : j <= k

\* os.path.basename(): what follows the last '/'
Basename(p) == SubSeq(p, LastSep(p) + 1, Len(p))

\* dict[key] = value
Put(m, key, value) == [x \in (DOMAIN m) \cup {key} |-> IF x = key THEN value ELSE m[x]]

\* dict.get(key)
Get(m, key) == IF key \in DOMAIN m THEN m[key] ELSE NoTrack

EmptyMap == [x \in {} |-> NoTrack]

\* ------------------------------------------------------------------ index builders
RECURSIVE IndexParts(_, _, _)
\* app.py 121-125: every part's base name maps to the track
IndexParts(parts, ratingKey, by_filename) ==
    IF parts = <<>> THEN by_filename
    ELSE IndexParts(Tail(parts), ratingKey, Put(by_filename, Basename(Head(parts)), ratingKey))

\* IndexPlexTrack letting the first track indexed under a title keep the key
IndexPlexTrackFirstWins(track, tm) ==
    [by_filename |-> IndexParts(track.parts, track.ratingKey, tm.by_filename),
     by_title    |-> IF Truthy(track.title) /\ Lower(track.title) \notin DOMAIN tm.by_title
                     THEN Put(tm.by_title, Lower(track.title), track.ratingKey)
                     ELSE tm.by_title]

\* _index_plex_track(track, track_map)
IndexPlexTrack(track, tm) ==
    [by_filename |-> IndexParts(track.parts, track.ratingKey, tm.by_filename),
     by_title    |-> IF Truthy(track.title)
                     THEN Put(tm.by_title, Lower(track.title), track.ratingKey)
                     ELSE tm.by_title]

RECURSIVE IndexTracks(_, _)
IndexTracks(tracks, tm) ==
    IF tracks = <<>> THEN tm
    ELSE IndexTracks(Tail(tracks), IndexPlexTrack(Head(tracks), tm))

RECURSIVE IndexSections(_, _)
\* build_plex_track_map: only sections of type 'artist' are indexed
IndexSections(sections, tm) ==
    IF sections = <<>> THEN tm
    ELSE IndexSections(Tail(sections),
                       IF Head(sections).type = "artist"
                       THEN IndexTracks(Head(sections).tracks, tm)
                       ELSE tm)

BuildPlexTrackMap(sections) ==
    IndexSections(sections, [by_filename |-> EmptyMap, by_title |-> EmptyMap])

RECURSIVE Ascending(_)
\* the members of a set of rating keys in ascending order
Ascending(S) ==
    IF S = {} THEN <<>>
    ELSE LET least == CHOOSE x \in S : \A y \in S : x <= y
         IN  <<least>> \o Ascending(S \ {least})

\* IndexPlexPlaylist keeping the rating keys as a sorted set instead of the item sequence
IndexPlexPlaylistSorted(playlists, h, pm) ==
    IF playlists[h].smart THEN pm
    ELSE Put(pm, playlists[h].title,
             [playlist |-> h,
              track_ids |-> Ascending({playlists[h].items[n] : n \in 1..Len(playlists[h].items)})])

\* IndexPlexPlaylist without the test for smart playlists
IndexPlexPlaylistAll(playlists, h, pm) ==
    Put(pm, playlists[h].title, [playlist |-> h, track_ids |-> playlists[h].items])

\* _index_plex_playlist(playlist, playlist_map); the playlist handle is its listing position
IndexPlexPlaylist(playlists, h, pm) ==
    IF playlists[h].smart THEN pm
    ELSE Put(pm, playlists[h].title, [playlist |-> h, track_ids |-> playlists[h].items])

RECURSIVE IndexPlaylists(_, _, _)
IndexPlaylists(playlists, h, pm) ==
    IF h > Len(playlists) THEN pm
    ELSE IndexPlaylists(playlists, h + 1, IndexPlexPlaylist(playlists, h, pm))

BuildPlexPlaylistMap(playlists) == IndexPlaylists(playlists, 1, EmptyMap)

\* ------------------------------------------------------------------ matcher
\* MatchTrack with the title looked up before the filename
MatchTrackTitleFirst(content, tm) ==
    LET track == IF Truthy(content.title) THEN Get(tm.by_title, Lower(content.title))
                 ELSE NoTrack
    IN  IF track = NoTrack THEN Get(tm.by_filename, content.file_name_l) ELSE track

\* MatchTrack with the filename compared case-insensitively
MatchTrackAnyCase(content, tm) ==
    LET track == Get(tm.by_filename, Lower(content.file_name_l))
    IN  IF track = NoTrack /\ Truthy(content.title)
        THEN Get(tm.by_title, Lower(content.title))
        ELSE track

\* app.py 256-258: filename first, then the lowercased title when the title is truthy
MatchTrack(content, tm) ==
    LET track == Get(tm.by_filename, content.file_name_l)
    IN  IF track = NoTrack /\ Truthy(content.title)
        THEN Get(tm.by_title, Lower(content.title))
        ELSE track

\* app.py 263: f'{folder_path}/{file_name}' if folder_path else file_name
FullPath(content) ==
    IF Truthy(content.folder_path)
    THEN content.folder_path \o <<"/">> \o content.file_name_l
    ELSE content.file_name_l

NotFoundEntry(combined_title, content) ==
    [playlist  |-> combined_title,
     file_name |-> content.file_name_l,
     full_path |-> FullPath(content),
     title     |-> content.title]

RECURSIVE MatchedTracksReversed(_, _)
\* MatchedTracks inserting each matched track at the front
MatchedTracksReversed(contents, tm) ==
    IF contents = <<>> THEN <<>>
    ELSE LET track == MatchTrack(Head(contents), tm)
         IN  MatchedTracksReversed(Tail(contents), tm)
             \o (IF track # NoTrack THEN <<track>> ELSE <<>>)

RECURSIVE MatchedTracks(_, _)
\* app.py 250-261: the matched tracks, in source order
MatchedTracks(contents, tm) ==
    IF contents = <<>> THEN <<>>
    ELSE LET track == MatchTrack(Head(contents), tm)
         IN  (IF track # NoTrack THEN <<track>> ELSE <<>>) \o MatchedTracks(Tail(contents), tm)

RECURSIVE NotFoundDedup(_, _, _)
\* NotFound recording an unmatched track only when no equal entry precedes it
NotFoundDedup(combined_title, contents, tm) ==
    IF contents = <<>> THEN <<>>
    ELSE LET rest == NotFoundDedup(combined_title, SubSeq(contents, 1, Len(contents) - 1), tm)
             last == contents[Len(contents)]
             e == NotFoundEntry(combined_title, last)
         IN  IF MatchTrack(last, tm) = NoTrack /\ \A n \in 1..Len(rest) : rest[n] # e
             THEN Append(rest, e) ELSE rest

RECURSIVE NotFound(_, _, _)
\* app.py 262-271: one entry per unmatched track, in source order
NotFound(combined_title, contents, tm) ==
    IF contents = <<>> THEN <<>>
    ELSE (IF MatchTrack(Head(contents), tm) = NoTrack
          THEN <<NotFoundEntry(combined_title, Head(contents))>> ELSE <<>>)
         \o NotFound(combined_title, Tail(contents), tm)

\* ------------------------------------------------------------------ per-playlist decision
\* IsSmartSource testing for the empty descriptor instead of a non-empty one
IsSmartSourceInverted(p) == p.smart_list = <<>>

\* app.py 231-232
IsSmartSource(p) == Truthy(p.smart_list)

\* NoContents testing only for the missing key
NoContentsMissingOnly(p) == ~p.has_contents

\* app.py 239: 'dj_md_contents' not in p or len(p['dj_md_contents']) == 0
NoContents(p) == ~p.has_contents \/ Len(p.dj_md_contents) = 0

\* SameTracks with the comparison inverted
SameTracksInverted(rekordbox_track_ids, existing_track_ids) ==
    rekordbox_track_ids # existing_track_ids

\* app.py 297: list equality of the rating keys
SameTracks(rekordbox_track_ids, existing_track_ids) == rekordbox_track_ids = existing_track_ids

\* app.py 240, 245: combined_title, the key of the playlist in playlist_map
CombinedTitle(p) == p.combined_name

\* Decision treating a playlist none of whose tracks matched like an empty one
DecisionSkipUnmatched(p, tm, pm, playlists) ==
    IF ~IsSmartSource(p) /\ ~NoContents(p) /\ MatchedTracks(p.dj_md_contents, tm) = <<>>
    THEN "no_tracks"
    ELSE
        IF IsSmartSource(p) THEN "smart_source"
        ELSE IF NoContents(p) THEN "no_tracks"
        ELSE IF CombinedTitle(p) \in DOMAIN pm
             THEN IF playlists[pm[CombinedTitle(p)].playlist].smart THEN "smart_target"
                  ELSE IF SameTracks(MatchedTracks(p.dj_md_contents, tm),
                                     pm[CombinedTitle(p)].track_ids)
                       THEN "up_to_date"
                       ELSE "update"
             ELSE "create"

\* The branch of the loop body that p takes (app.py 231-334).
Decision(p, tm, pm, playlists) ==
    IF IsSmartSource(p) THEN "smart_source"
    ELSE IF NoContents(p) THEN "no_tracks"
    ELSE IF CombinedTitle(p) \in DOMAIN pm
         THEN IF playlists[pm[CombinedTitle(p)].playlist].smart THEN "smart_target"
              ELSE IF SameTracks(MatchedTracks(p.dj_md_contents, tm),
                                 pm[CombinedTitle(p)].track_ids)
                   THEN "up_to_date"
                   ELSE "update"
         ELSE "create"

\* ------------------------------------------------------------------ input data
SrcTrack(file, folder, title) == [file_name_l |-> file, folder_path |-> folder, title |-> title]

\* found by filename
srcA == SrcTrack(<<"a">>, <<"/", "m">>, None)

\* filename unknown to the target, found by title 'B' -> 'b'
srcB == SrcTrack(<<"z">>, None, <<"B">>)

\* filename of one target track, title of another
srcAB == SrcTrack(<<"a">>, <<"/", "m">>, <<"B">>)

\* found neither way: 'q' is only in a video section, the filename differs in case
srcMiss == SrcTrack(<<"A">>, <<"/", "m">>, <<"Q">>)

SrcTracks == {srcA, srcB, srcAB, srcMiss}

PlaylistObj(name, combined, smart, has, contents) ==
    [name |-> name, combined_name |-> combined, smart_list |-> smart,
     has_contents |-> has, dj_md_contents |-> contents]

\* the playlists that lists of several playlists are made of
\* a playlist one of whose tracks the server does not hold
Favorites == PlaylistObj("Favorites", "House/Favorites", None, TRUE, <<srcA, srcMiss>>)

SourcePool ==
    { PlaylistObj("Techno", "Techno", None, TRUE, <<srcA, srcB>>),
      PlaylistObj("Techno", "Techno", <<>>, TRUE, <<srcB, srcA>>),
      Favorites,
      PlaylistObj("Favorites", "House/Favorites", <<"x">>, TRUE, <<srcB, srcMiss>>),
      PlaylistObj("Favorites", "House/Favorites", None, FALSE, <<>>) }

SeqsUpTo(S, n) == UNION {[1..k -> S] : k \in 0..n}

\* lists of up to MaxPlaylists playlists
PoolLists == SeqsUpTo(SourcePool, MaxPlaylists)

\* a single playlist with any tracks, up to MaxTracks of them
RichLists ==
    { <<PlaylistObj("Techno", "Techno", None, TRUE, c)>> : c \in SeqsUpTo(SrcTracks, MaxTracks) }

PlexTrack(ratingKey, title, parts) == [ratingKey |-> ratingKey, title |-> title, parts |-> parts]

Section(type, tracks) == [type |-> type, tracks |-> tracks]

CatalogA ==
    << Section("artist", << PlexTrack(1, <<"A">>, << <<"/", "m", "/", "a">> >>),
                            PlexTrack(2, <<"B">>, << <<"/", "m", "/", "b">> >>) >>),
       Section("movie",  << PlexTrack(3, <<"Q">>, << <<"/", "v", "/", "A">> >>) >>) >>

\* duplicate file names and titles, a track without title, a track without parts
CatalogB ==
    << Section("artist", << PlexTrack(2, <<"b">>, << <<"a">> >>),
                            PlexTrack(1, <<>>, << <<"/", "n", "/", "a">>, <<"b">> >>) >>),
       Section("artist", << PlexTrack(3, <<"b">>, <<>>) >>) >>

PlexPlaylist(title, smart, items) == [title |-> title, smart |-> smart, items |-> items]

\* playlists on the server before the first run
TargetStates ==
    { <<>>,
      << PlexPlaylist("Techno", FALSE, <<1, 2>>) >>,
      << PlexPlaylist("Techno", FALSE, <<2, 1>>) >>,
      << PlexPlaylist("Techno", TRUE, <<1, 2>>) >>,
      << PlexPlaylist("Techno", FALSE, <<1>>), PlexPlaylist("Techno", FALSE, <<1, 2>>) >>,
      << PlexPlaylist("Techno", FALSE, <<1, 3>>), PlexPlaylist("Techno", TRUE, <<1>>) >>,
      << PlexPlaylist("House/Favorites", FALSE, <<>>) >>,
      << PlexPlaylist("House/Favorites", TRUE, <<1>>), PlexPlaylist("Techno", FALSE, <<2>>) >> }

\* the servers that sync_playlists is called against
LibTargets ==
    { <<>>,
      << PlexPlaylist("Techno", FALSE, <<1, 2>>) >>,
      << PlexPlaylist("Techno", FALSE, <<2, 1>>) >> }

\* two playlists on the server that two source playlists are out of date with
TwoTargets ==
    << PlexPlaylist("House/Favorites", FALSE, <<2>>), PlexPlaylist("Techno", FALSE, <<2>>) >>

TwoUpdates ==
    { <<PlaylistObj("Techno", "Techno", None, TRUE, <<srcA, srcB>>), Favorites>>,
      <<Favorites, PlaylistObj("Techno", "Techno", None, TRUE, <<srcA, srcB>>)>> }

\* ------------------------------------------------------------------ the run
NoPrev == [completed |-> FALSE, all_ok |-> FALSE, mutated |-> FALSE,
           same_source |-> FALSE, had_file |-> FALSE]

\* ------------------------------------------------------------------ the command line
\* python3 app.py <server url> <token> [--verbose|-v]
FullArgv == <<"app.py", "url", "token">>

\* the command lines the script is started with
CliArgvs ==
    { <<"app.py">>,
      <<"app.py", "url">>,
      <<"app.py", "-v">>,
      <<"app.py", "url", "-v">>,
      <<"app.py", "url", "--verbose">>,
      FullArgv,
      <<"app.py", "url", "token", "--verbose">> }

\* sys.argv of the program that imports the package and calls sync_playlists
HostArgv == <<"host.py", "--serve">>

\* __init__.py 56-58: the command line _run_sync fabricates for main()
LibArgv(verbose) ==
    <<"app.py", "url", "token">> \o (IF verbose THEN <<"--verbose">> ELSE <<>>)

\* app.py 194: len(sys.argv) <= 2
TooFewArgs(argv) == Len(argv) <= 2

\* sync_playlists has not returned
NoResult == [returned |-> FALSE]

\* main() has not run: its locals hold nothing yet
Fresh ==
    /\ pl = <<>>
    /\ track_map = [by_filename |-> EmptyMap, by_title |-> EmptyMap]
    /\ playlist_map = EmptyMap
    /\ i = 1
    /\ created_playlists = <<>>
    /\ updated_playlists = <<>>
    /\ skipped_playlists = <<>>
    /\ smart_playlists_skipped = <<>>
    /\ not_found_tracks = <<>>
    /\ calls = <<>>

Init ==
    /\ run = "first"
    /\ \/ /\ caller = "cli"
          /\ pc = "start"
          /\ lib_verbose = FALSE
          /\ sys_argv = FullArgv
          /\ \/ /\ source \in PoolLists /\ plex_sections = CatalogA
                /\ plex_playlists \in TargetStates
             \/ /\ source \in RichLists /\ plex_sections \in {CatalogA, CatalogB}
                /\ plex_playlists \in TargetStates
             \/ /\ source \in TwoUpdates /\ plex_sections = CatalogA
                /\ plex_playlists = TwoTargets
       \/ /\ caller = "cli"
          /\ pc = "start"
          /\ lib_verbose = FALSE
          /\ sys_argv \in CliArgvs \ {FullArgv}
          /\ source \in {<<>>, <<Favorites>>}
          /\ plex_sections = CatalogA
          /\ plex_playlists = <<>>
       \/ /\ caller = "lib"
          /\ pc = "idle"
          /\ sys_argv = HostArgv
          /\ \/ /\ lib_verbose = FALSE
                /\ source \in RichLists
                /\ plex_playlists \in LibTargets
             \/ /\ lib_verbose = TRUE
                /\ source \in {<<>>, <<Favorites>>}
                /\ plex_playlists = <<>>
          /\ plex_sections = CatalogA
    /\ original_argv = <<>>
    /\ result = NoResult
    /\ events = <<>>
    /\ Fresh
    /\ not_found_file = NoFile
    /\ prev = NoPrev
    /\ m_in = srcA
    /\ m_out = NoTrack

world == <<source, plex_sections>>
harness == <<m_in, m_out>>
wrapper == <<caller, lib_verbose, sys_argv, original_argv, result>>
report == <<created_playlists, updated_playlists, skipped_playlists,
            smart_playlists_skipped, not_found_tracks>>

\* ------------------------------------------------------------------ the Logger's events
\* logger.py 50-53: _emit_event(event_type, data), which hands the event to the
\* event_callback the Logger was constructed with. step is the position in pl of the
\* playlist being processed (0 before the loop), after the number of server calls made
Event(type, step, after, data) == [type |-> type, step |-> step, after |-> after, data |-> data]

Emit(emitted) == events' = events \o emitted

Size(map) == Cardinality(DOMAIN map)

\* logger.py 90-92
BuildingTrackMap == Event("building_track_map", 0, 0, [status |-> "started"])

\* logger.py 99-104
TrackMapComplete(filename_count, title_count) ==
    Event("track_map_complete", 0, 0,
          [filename_count |-> filename_count, title_count |-> title_count])

\* logger.py 108-110
BuildingPlaylistMap == Event("building_playlist_map", 0, 0, [status |-> "started"])

\* logger.py 113-115
PlaylistMapComplete(count) == Event("playlist_map_complete", 0, 0, [count |-> count])

\* logger.py 118-120
RekordboxPlaylistsFound(count) == Event("rekordbox_playlists_found", 0, 0, [count |-> count])

\* logger.py 127-129
ProcessingPlaylist(name) ==
    Event("processing_playlist", i, Len(calls), [name |-> name, status |-> "started"])

\* logger.py 153-157
PlaylistUpToDate(name, track_count) ==
    Event("playlist_up_to_date", i, Len(calls), [name |-> name, track_count |-> track_count])

\* logger.py 162-167
PlaylistUpdating(name, old_count, new_count) ==
    Event("playlist_updating", i, Len(calls),
          [name |-> name, old_count |-> old_count, new_count |-> new_count])

\* logger.py 176-187: added = new_count - old_count
PlaylistUpdated(name, old_count, new_count, after) ==
    Event("playlist_updated", i, after,
          [name |-> name, old_count |-> old_count, new_count |-> new_count,
           added |-> new_count - old_count])

\* logger.py 193-197
CreatingPlaylist(name, track_count) ==
    Event("creating_playlist", i, Len(calls), [name |-> name, track_count |-> track_count])

\* logger.py 200-202
PlaylistCreated(name, after) ==
    Event("playlist_created", i, after, [name |-> name, status |-> "success"])

\* logger.py 254-256
SyncComplete(total_processed) ==
    Event("sync_complete", i, Len(calls), [total_processed |-> total_processed])

\* ------------------------------------------------------------------ main()
\* Abort dumping the unmatched list on its way out
AbortExporting ==
    /\ pc' = "aborted"
    /\ not_found_file' = [exists |-> TRUE, content |-> not_found_tracks]
    /\ UNCHANGED <<run, world, plex_playlists, pl, track_map, playlist_map, i, report,
                   calls, prev, harness, wrapper>>

\* an exception that main() does not catch ends the run
Abort ==
    /\ pc' = "aborted"
    /\ UNCHANGED <<run, world, plex_playlists, pl, track_map, playlist_map, i, report,
                   not_found_file, calls, prev, harness, wrapper>>

\* app.py 194-197: the usage text is printed and sys.exit(0) ends the process
Usage ==
    /\ pc = "start"
    /\ TooFewArgs(sys_argv)
    /\ pc' = "usage_exit"
    /\ UNCHANGED events
    /\ UNCHANGED <<run, world, plex_playlists, pl, track_map, playlist_map, i, report,
                   not_found_file, calls, prev, harness, wrapper>>

\* __init__.py 53-63: _run_sync saves sys.argv, replaces it and calls app.main()
RunSync ==
    /\ caller = "lib"
    /\ pc = "idle"
    /\ original_argv' = sys_argv
    /\ sys_argv' = LibArgv(lib_verbose)
    /\ pc' = "start"
    /\ UNCHANGED <<run, world, plex_playlists, pl, track_map, playlist_map, i, report,
                   not_found_file, calls, prev, harness, caller, lib_verbose, result,
                   events>>

\* app.py 199: pl = get_playlists()
GetPlaylists(ok) ==
    /\ pc = "start"
    /\ ~TooFewArgs(sys_argv)
    /\ UNCHANGED events
    /\ IF ok
       THEN /\ pc' = "loaded"
            /\ pl' = source
            /\ UNCHANGED <<run, world, plex_playlists, track_map, playlist_map, i, report,
                           not_found_file, calls, prev, harness, wrapper>>
       ELSE Abort

\* app.py 209: plex = PlexServer(server_url, token)
Connect(ok) ==
    /\ pc = "loaded"
    /\ UNCHANGED events
    /\ IF ok
       THEN /\ pc' = "connected"
            /\ UNCHANGED <<run, world, plex_playlists, pl, track_map, playlist_map, i, report,
                           not_found_file, calls, prev, harness, wrapper>>
       ELSE Abort

\* app.py 215: track_map = build_plex_track_map(plex, logger)
BuildTrackMap(ok) ==
    /\ pc = "connected"
    /\ IF ok
       THEN /\ pc' = "track_map"
            /\ track_map' = BuildPlexTrackMap(plex_sections)
            /\ Emit(<<BuildingTrackMap,
                      TrackMapComplete(Size(track_map'.by_filename), Size(track_map'.by_title))>>)
            /\ UNCHANGED <<run, world, plex_playlists, pl, playlist_map, i, report,
                           not_found_file, calls, prev, harness, wrapper>>
       ELSE Abort /\ Emit(<<BuildingTrackMap>>)

\* app.py 216-225: playlist_map = build_plex_playlist_map(plex, logger); the lists start empty
BuildPlaylistMap(ok) ==
    /\ pc = "track_map"
    /\ IF ok
       THEN /\ pc' = "loop"
            /\ playlist_map' = BuildPlexPlaylistMap(plex_playlists)
            /\ Emit(<<BuildingPlaylistMap, PlaylistMapComplete(Size(playlist_map')),
                      RekordboxPlaylistsFound(Len(pl))>>)
            /\ UNCHANGED <<run, world, plex_playlists, pl, track_map, i, report,
                           not_found_file, calls, prev, harness, wrapper>>
       ELSE Abort /\ Emit(<<BuildingPlaylistMap>>)

\* ------------------------------------------------------------------ the loop over pl
InLoop == pc = "loop" /\ i <= Len(pl)

Call(op, handle, title, items, ok) ==
    [op |-> op, step |-> i, playlist |-> handle, title |-> title, items |-> items, ok |-> ok]

\* app.py 250-271 for pl[i]: the unmatched tracks join not_found_tracks
CollectNotFound ==
    not_found_tracks' =
        not_found_tracks \o NotFound(CombinedTitle(pl[i]), pl[i].dj_md_contents, track_map)

\* app.py 231-235: a smart rekordbox playlist is skipped under its own name
SkipSmartSource ==
    /\ InLoop
    /\ Decision(pl[i], track_map, playlist_map, plex_playlists) = "smart_source"
    /\ smart_playlists_skipped' = Append(smart_playlists_skipped, pl[i].name)
    /\ UNCHANGED events
    /\ i' = i + 1
    /\ UNCHANGED <<pc, run, world, plex_playlists, pl, track_map, playlist_map,
                   created_playlists, updated_playlists, skipped_playlists,
                   not_found_tracks, not_found_file, calls, prev, harness, wrapper>>

\* SkipNoTracks leaving no record of the playlist
SkipNoTracksUnrecorded ==
    /\ InLoop
    /\ Decision(pl[i], track_map, playlist_map, plex_playlists) = "no_tracks"
    /\ Emit(<<ProcessingPlaylist(pl[i].name)>>)
    /\ i' = i + 1
    /\ UNCHANGED <<pc, run, world, plex_playlists, pl, track_map, playlist_map, report,
                   not_found_file, calls, prev, harness, wrapper>>

\* app.py 239-243
SkipNoTracks ==
    /\ InLoop
    /\ Decision(pl[i], track_map, playlist_map, plex_playlists) = "no_tracks"
    /\ skipped_playlists' =
           Append(skipped_playlists, [name |-> CombinedTitle(pl[i]), reason |-> "No tracks"])
    /\ Emit(<<ProcessingPlaylist(pl[i].name)>>)
    /\ i' = i + 1
    /\ UNCHANGED <<pc, run, world, plex_playlists, pl, track_map, playlist_map,
                   created_playlists, updated_playlists, smart_playlists_skipped,
                   not_found_tracks, not_found_file, calls, prev, harness, wrapper>>

\* app.py 285-306: the playlist is in playlist_map and is left alone
SkipExisting ==
    LET d == Decision(pl[i], track_map, playlist_map, plex_playlists)
        tracks == MatchedTracks(pl[i].dj_md_contents, track_map)
    IN  /\ InLoop
        /\ d \in {"smart_target", "up_to_date"}
        /\ CollectNotFound
        /\ IF d = "smart_target"
           THEN /\ smart_playlists_skipped' =
                       Append(smart_playlists_skipped, CombinedTitle(pl[i]))
                /\ Emit(<<ProcessingPlaylist(pl[i].name)>>)
                /\ UNCHANGED skipped_playlists
           ELSE /\ skipped_playlists' =
                       Append(skipped_playlists,
                              [name |-> CombinedTitle(pl[i]), tracks |-> Len(tracks),
                               reason |-> "Up to date"])
                /\ Emit(<<ProcessingPlaylist(pl[i].name),
                          PlaylistUpToDate(CombinedTitle(pl[i]), Len(tracks))>>)
                /\ UNCHANGED smart_playlists_skipped
        /\ i' = i + 1
        /\ UNCHANGED <<pc, run, world, plex_playlists, pl, track_map, playlist_map,
                       created_playlists, updated_playlists, not_found_file, calls, prev,
                       harness, wrapper>>

\* CreateEvents announcing the creation before createPlaylist has returned
CreateEventsEager(title, tracks, ok) ==
    <<ProcessingPlaylist(pl[i].name), CreatingPlaylist(title, Len(tracks)),
      PlaylistCreated(title, Len(calls))>>

\* app.py 237, 331-334: processing_playlist, creating_playlist, the createPlaylist call,
\* and playlist_created once it has returned
CreateEvents(title, tracks, ok) ==
    <<ProcessingPlaylist(pl[i].name), CreatingPlaylist(title, Len(tracks))>>
        \o (IF ok THEN <<PlaylistCreated(title, Len(calls) + 1)>> ELSE <<>>)

\* CreatePlaylist entering the playlist it made into playlist_map
CreatePlaylistIndexing(ok) ==
    LET tracks == MatchedTracks(pl[i].dj_md_contents, track_map)
        title == CombinedTitle(pl[i])
    IN  /\ InLoop
        /\ Decision(pl[i], track_map, playlist_map, plex_playlists) = "create"
        /\ CollectNotFound
        /\ calls' = Append(calls, Call("createPlaylist", 0, title, tracks, ok))
        /\ Emit(CreateEvents(title, tracks, ok))
        /\ IF ok
           THEN /\ plex_playlists' = Append(plex_playlists, PlexPlaylist(title, FALSE, tracks))
                /\ created_playlists' =
                       Append(created_playlists, [name |-> title, tracks |-> Len(tracks)])
                /\ playlist_map' =
                       Put(playlist_map, title,
                           [playlist |-> Len(plex_playlists) + 1, track_ids |-> tracks])
                /\ i' = i + 1
                /\ UNCHANGED pc
           ELSE /\ pc' = "aborted"
                /\ UNCHANGED <<plex_playlists, created_playlists, i, playlist_map>>
        /\ UNCHANGED <<run, world, pl, track_map, updated_playlists,
                       skipped_playlists, smart_playlists_skipped, not_found_file, prev,
                       harness, wrapper>>

\* app.py 330-334: plex.createPlaylist(title=combined_title, items=tracks)
CreatePlaylist(ok) ==
    LET tracks == MatchedTracks(pl[i].dj_md_contents, track_map)
        title == CombinedTitle(pl[i])
    IN  /\ InLoop
        /\ Decision(pl[i], track_map, playlist_map, plex_playlists) = "create"
        /\ CollectNotFound
        /\ calls' = Append(calls, Call("createPlaylist", 0, title, tracks, ok))
        /\ Emit(CreateEvents(title, tracks, ok))
        /\ IF ok
           THEN /\ plex_playlists' = Append(plex_playlists, PlexPlaylist(title, FALSE, tracks))
                /\ created_playlists' =
                       Append(created_playlists, [name |-> title, tracks |-> Len(tracks)])
                /\ i' = i + 1
                /\ UNCHANGED pc
           ELSE /\ pc' = "aborted"
                /\ UNCHANGED <<plex_playlists, created_playlists, i>>
        /\ UNCHANGED <<run, world, pl, track_map, playlist_map, updated_playlists,
                       skipped_playlists, smart_playlists_skipped, not_found_file, prev,
                       harness, wrapper>>

\* How the try block of app.py 313-318 can end for a playlist holding `cur`: done, the
\* fetch of the items raised, or removeItems raised after removing the first k items.
RemoveOutcomes(cur) ==
    {[kind |-> "ok", removed |-> Len(cur)], [kind |-> "items_raised", removed |-> 0]}
    \cup {[kind |-> "remove_raised", removed |-> k] : k \in 0..(Len(cur) - 1)}

\* UpdateTarget taking the first playlist of the index whatever the title
UpdateTargetFirstIndexed(pm, playlists, title) ==
    CHOOSE h \in {pm[t].playlist : t \in DOMAIN pm} :
        \A t \in DOMAIN pm : h <= pm[t].playlist

\* UpdateTarget looking the playlist up on the server by its title: the last one listed
UpdateTargetByTitle(pm, playlists, title) ==
    CHOOSE h \in 1..Len(playlists) :
        /\ playlists[h].title = title
        /\ \A g \in 1..Len(playlists) : playlists[g].title = title => g <= h

\* ReplaceAll without the removal: the tracks are appended to what the playlist holds
ReplaceAllKeep(items_to_remove, removed, tracks) == items_to_remove \o tracks

\* app.py 314-320: existing_playlist, the playlist that items(), removeItems and addItems
\* are called on
UpdateTarget(pm, playlists, title) == pm[title].playlist

\* app.py 316, 320: what the playlist holds after removeItems took the first `removed`
\* of its items away and addItems appended the tracks
ReplaceAll(items_to_remove, removed, tracks) ==
    SubSeq(items_to_remove, removed + 1, Len(items_to_remove)) \o tracks

\* app.py 329: logger.playlist_updated(combined_title), the counts left to their
\* defaults (logger.py 176: old_count = 0, new_count = 0)
UpdatedCounts(existing_track_ids, tracks) == [old_count |-> 0, new_count |-> 0]

\* Caught letting a failure of removeItems escape
CaughtFetchOnly(rem) == rem.kind # "remove_raised"

\* app.py 313-320: the try block holds items() and removeItems(), and
\* "except Exception" catches what either raises
Caught(rem) == TRUE

\* app.py 307-329: remove what the playlist holds, then add the matched tracks
UpdatePlaylist(rem, add_ok) ==
    LET tracks == MatchedTracks(pl[i].dj_md_contents, track_map)
        title == CombinedTitle(pl[i])
        h == UpdateTarget(playlist_map, plex_playlists, title)
        existing_track_ids == playlist_map[title].track_ids
        items_to_remove == plex_playlists[h].items
        left == SubSeq(items_to_remove, rem.removed + 1, Len(items_to_remove))
        fetch == <<Call("items", h, title, <<>>, rem.kind # "items_raised")>>
        removal == IF rem.kind = "items_raised" \/ items_to_remove = <<>>
                   THEN <<>>
                   ELSE <<Call("removeItems", h, title, items_to_remove, rem.kind = "ok")>>
    IN  /\ InLoop
        /\ Decision(pl[i], track_map, playlist_map, plex_playlists) = "update"
        /\ rem \in RemoveOutcomes(items_to_remove)
        /\ CollectNotFound
        /\ calls' = calls \o fetch \o removal \o
                     (IF Caught(rem) THEN <<Call("addItems", h, title, tracks, add_ok)>> ELSE <<>>)
        /\ Emit(<<ProcessingPlaylist(pl[i].name),
                  PlaylistUpdating(title, Len(existing_track_ids), Len(tracks))>>
                \o (IF Caught(rem) /\ add_ok
                    THEN <<PlaylistUpdated(title,
                                           UpdatedCounts(existing_track_ids, tracks).old_count,
                                           UpdatedCounts(existing_track_ids, tracks).new_count,
                                           Len(calls'))>>
                    ELSE <<>>))
        /\ IF Caught(rem) /\ add_ok
           THEN /\ plex_playlists' =
                       [plex_playlists EXCEPT ![h].items = ReplaceAll(items_to_remove, rem.removed, tracks)]
                /\ updated_playlists' =
                       Append(updated_playlists,
                              [name |-> title,
                               old_tracks |-> Len(existing_track_ids),
                               new_tracks |-> Len(tracks),
                               added |-> Len(tracks) - Len(existing_track_ids)])
                /\ i' = i + 1
                /\ UNCHANGED pc
           ELSE /\ plex_playlists' = [plex_playlists EXCEPT ![h].items = left]
                /\ pc' = "aborted"
                /\ UNCHANGED <<updated_playlists, i>>
        /\ UNCHANGED <<run, world, pl, track_map, playlist_map, created_playlists,
                       skipped_playlists, smart_playlists_skipped, not_found_file, prev,
                       harness, wrapper>>

\* app.py 338-339: open('not-found.json', 'w') truncates, json.dump writes the list
WriteFileAppend(old, new) == [exists |-> TRUE, content |-> old.content \o new]

WriteFile(old, new) == [exists |-> TRUE, content |-> new]

\* app.py 342: has_changes = created_playlists or updated_playlists or smart_playlists_skipped
HasChanges ==
    created_playlists # <<>> \/ updated_playlists # <<>> \/ smart_playlists_skipped # <<>>

\* app.py 356-361
TotalProcessed ==
    Len(created_playlists) + Len(updated_playlists) + Len(skipped_playlists)
        + Len(smart_playlists_skipped)

\* app.py 336-365: not-found.json is written only when there are unmatched tracks; the
\* summary follows, and sync_complete is logged in its has_changes branch
ExportNotFound ==
    /\ pc = "loop"
    /\ i > Len(pl)
    /\ pc' = "done"
    /\ Emit(IF HasChanges THEN <<SyncComplete(TotalProcessed)>> ELSE <<>>)
    /\ not_found_file' = IF not_found_tracks # <<>>
                         THEN WriteFile(not_found_file, not_found_tracks)
                         ELSE not_found_file
    /\ UNCHANGED <<run, world, plex_playlists, pl, track_map, playlist_map, i, report,
                   calls, prev, harness, wrapper>>

AllOk(cs) == \A k \in 1..Len(cs) : cs[k].ok

\* __init__.py 76, 80: sys.argv = original_argv, on the return path and in the handler
RestoreOnReturnOnly(original, current, raised) == IF raised THEN current ELSE original

Restore(original, current, raised) == original

\* __init__.py 66-74: not-found.json is read back when a file of that name exists
ReadBack(file) ==
    [returned |-> TRUE, success |-> TRUE,
     not_found |-> IF file.exists THEN Len(file.content) ELSE 0]

\* __init__.py 45, 81: {'success': False, 'error': str(e)}
Failure == [returned |-> TRUE, success |-> FALSE, error |-> "str(e)"]

\* __init__.py 34-47, 65-81: main() has returned or raised; sync_playlists returns.
\* cb: no output_callback was given, or it returns, or it raises
Return(cb) ==
    /\ caller = "lib"
    /\ pc \in {"done", "aborted"}
    /\ ~result.returned
    /\ sys_argv' = Restore(original_argv, sys_argv, pc = "aborted")
    /\ result' = IF pc = "done" /\ cb # "raises" THEN ReadBack(not_found_file) ELSE Failure
    /\ UNCHANGED events
    /\ UNCHANGED <<pc, run, world, plex_playlists, pl, track_map, playlist_map, i, report,
                   not_found_file, calls, prev, harness, caller, lib_verbose, original_argv>>

\* the script is started, or sync_playlists is called, once more: the server is as the
\* first run left it, and the library is the same or has been emptied meanwhile
RunAgain ==
    /\ \/ caller = "cli" /\ pc \in {"done", "aborted", "usage_exit"}
       \/ caller = "lib" /\ result.returned
    /\ run = "first"
    /\ run' = "second"
    /\ pc' = IF caller = "cli" THEN "start" ELSE "idle"
    /\ source' \in {source, <<>>}
    /\ prev' = [completed |-> pc = "done", all_ok |-> pc = "done" /\ AllOk(calls),
                 mutated |-> calls # <<>>, same_source |-> source' = source,
                 had_file |-> not_found_file.exists]
    /\ original_argv' = <<>>
    /\ result' = NoResult
    /\ events' = <<>>
    /\ pl' = <<>>
    /\ track_map' = [by_filename |-> EmptyMap, by_title |-> EmptyMap]
    /\ playlist_map' = EmptyMap
    /\ i' = 1
    /\ created_playlists' = <<>>
    /\ updated_playlists' = <<>>
    /\ skipped_playlists' = <<>>
    /\ smart_playlists_skipped' = <<>>
    /\ not_found_tracks' = <<>>
    /\ calls' = <<>>
    /\ UNCHANGED <<plex_sections, plex_playlists, not_found_file, harness,
                   caller, lib_verbose, sys_argv>>

Next ==
    \/ Usage
    \/ RunSync
    \/ \E ok \in BOOLEAN : GetPlaylists(ok)
    \/ \E ok \in BOOLEAN : Connect(ok)
    \/ \E ok \in BOOLEAN : BuildTrackMap(ok)
    \/ \E ok \in BOOLEAN : BuildPlaylistMap(ok)
    \/ SkipSmartSource
    \/ SkipNoTracks
    \/ SkipExisting
    \/ \E ok \in BOOLEAN : CreatePlaylist(ok)
    \/ \E kind \in {"ok", "items_raised", "remove_raised"}, k \in 0..(MaxTracks + 1),
          add_ok \in BOOLEAN :
          UpdatePlaylist([kind |-> kind, removed |-> k], add_ok)
    \/ ExportNotFound
    \/ \E cb \in {"none", "returns", "raises"} : Return(cb)
    \/ RunAgain

Spec == Init /\ [][Next]_vars

\* ------------------------------------------------------------------ the matcher alone
RatingKeys == {1, 2}

Maps(keys) == UNION {[D -> RatingKeys] : D \in SUBSET keys}

\* the indexes the builder can leave: base names, and lowercased non-empty titles
TrackMaps ==
    { [by_filename |-> f, by_title |-> t] :
          f \in Maps({<<"a">>, <<"b">>}), t \in Maps({<<"a">>, <<"b">>}) }

MatchInputs ==
    { SrcTrack(file, folder, title) :
          file \in {None, <<"a">>, <<"A">>, <<"b">>, <<"m", "/", "a">>},
          folder \in {None, <<"/", "m">>},
          title \in {None, <<>>, <<"a">>, <<"A">>, <<"B">>, <<"a", "b">>} }

InitMatch ==
    /\ pc = "match"
    /\ run = "first"
    /\ source = <<>>
    /\ plex_sections = <<>>
    /\ plex_playlists = <<>>
    /\ pl = <<>>
    /\ track_map \in TrackMaps
    /\ playlist_map = EmptyMap
    /\ i = 1
    /\ created_playlists = <<>>
    /\ updated_playlists = <<>>
    /\ skipped_playlists = <<>>
    /\ smart_playlists_skipped = <<>>
    /\ not_found_tracks = <<>>
    /\ calls = <<>>
    /\ not_found_file = NoFile
    /\ prev = NoPrev
    /\ m_in \in MatchInputs
    /\ m_out = NoTrack
    /\ caller = "cli"
    /\ lib_verbose = FALSE
    /\ sys_argv = FullArgv
    /\ original_argv = <<>>
    /\ result = NoResult
    /\ events = <<>>

\* app.py 251-258 for one track
Match ==
    /\ pc = "match"
    /\ pc' = "matched"
    /\ m_out' = MatchTrack(m_in, track_map)
    /\ UNCHANGED events
    /\ UNCHANGED <<run, world, plex_playlists, pl, track_map, playlist_map, i, report,
                   not_found_file, calls, prev, m_in, wrapper>>

NextMatch == Match

SpecMatch == InitMatch /\ [][NextMatch]_vars

\* ------------------------------------------------------------------ the index builders alone
MaxCatalogTracks == 2
MaxTargets == 3

\* tracks as the server lists them: no part, one part, two parts; no title, an empty
\* title, titles that differ in case only
TrackKinds ==
    { [title |-> title, parts |-> parts] :
          title \in {None, <<>>, <<"A">>, <<"a">>},
          parts \in { <<>>, << <<"/", "m", "/", "a">> >>, << <<"/", "v", "/", "a">>, <<"b">> >> } }

\* the tracks of a section, their rating keys numbered on from `from`
Numbered(kinds, from) ==
    [n \in 1..Len(kinds) |-> PlexTrack(from + n, kinds[n].title, kinds[n].parts)]

\* a music section followed by a section that is a music or a video section
IndexCatalogs ==
    { << Section("artist", Numbered(first, 0)), Section(type, Numbered(second, Len(first))) >> :
          first \in SeqsUpTo(TrackKinds, MaxCatalogTracks),
          second \in SeqsUpTo(TrackKinds, 1),
          type \in {"artist", "movie"} }

TargetKinds ==
    { PlexPlaylist(title, smart, items) :
          title \in {"Techno", "House"}, smart \in BOOLEAN, items \in {<<>>, <<1>>, <<2, 1>>} }

\* the playlists the server lists, up to MaxTargets of them
IndexTargets == SeqsUpTo(TargetKinds, MaxTargets)

\* main() has connected and is about to build the indexes
InitIndex ==
    /\ pc = "connected"
    /\ run = "first"
    /\ source = <<>>
    /\ \/ plex_sections \in IndexCatalogs /\ plex_playlists = <<>>
       \/ plex_sections = CatalogA /\ plex_playlists \in IndexTargets
    /\ Fresh
    /\ not_found_file = NoFile
    /\ prev = NoPrev
    /\ m_in = srcA
    /\ m_out = NoTrack
    /\ caller = "cli"
    /\ lib_verbose = FALSE
    /\ sys_argv = FullArgv
    /\ original_argv = <<>>
    /\ result = NoResult
    /\ events = <<>>

NextIndex ==
    \/ \E ok \in BOOLEAN : BuildTrackMap(ok)
    \/ \E ok \in BOOLEAN : BuildPlaylistMap(ok)

SpecIndex == InitIndex /\ [][NextIndex]_vars

\* ------------------------------------------------------------------ properties
FileHit(content, tm) == content.file_name_l \in DOMAIN tm.by_filename

TitleHit(content, tm) ==
    /\ content.title # None
    /\ content.title # <<>>
    /\ Lower(content.title) \in DOMAIN tm.by_title

\* C6: a source track whose file name is a key of by_filename and whose lowercased
\* title is a key of by_title holding a different track is matched to the track stored
\* under the file name.
FilenamePriority ==
    (/\ pc = "matched"
     /\ FileHit(m_in, track_map)
     /\ TitleHit(m_in, track_map)
     /\ track_map.by_title[Lower(m_in.title)] # track_map.by_filename[m_in.file_name_l])
    => m_out = track_map.by_filename[m_in.file_name_l]

FilenamePriorityWitness ==
    /\ pc = "matched"
    /\ FileHit(m_in, track_map)
    /\ TitleHit(m_in, track_map)
    /\ track_map.by_title[Lower(m_in.title)] # track_map.by_filename[m_in.file_name_l]
    /\ m_out # NoTrack

\* C7: the match is by_filename[file_name_l] when that key exists, else
\* by_title[lowercase(title)] when the title is neither null nor empty and that key
\* exists, else nothing; no other key of the index produces a match.
ExactOrFail ==
    pc = "matched" =>
        m_out = IF FileHit(m_in, track_map) THEN track_map.by_filename[m_in.file_name_l]
                ELSE IF TitleHit(m_in, track_map) THEN track_map.by_title[Lower(m_in.title)]
                ELSE NoTrack

\* a file name that differs from an indexed one only in case, with an empty title: no match
ExactOrFailWitness ==
    /\ pc = "matched"
    /\ m_in.file_name_l = <<"A">>
    /\ <<"a">> \in DOMAIN track_map.by_filename
    /\ m_in.title = <<>>
    /\ DOMAIN track_map.by_title # {}
    /\ m_out = NoTrack

\* ---- the run: what a step is expected to do, stated from the inputs
ExpectedTrack(content, tm) ==
    IF FileHit(content, tm) THEN tm.by_filename[content.file_name_l]
    ELSE IF TitleHit(content, tm) THEN tm.by_title[Lower(content.title)]
    ELSE NoTrack

RECURSIVE Hits(_, _)
\* the target tracks of the contents that have a hit, in source order
Hits(contents, tm) ==
    IF contents = <<>> THEN <<>>
    ELSE IF FileHit(Head(contents), tm) \/ TitleHit(Head(contents), tm)
         THEN <<ExpectedTrack(Head(contents), tm)>> \o Hits(Tail(contents), tm)
         ELSE Hits(Tail(contents), tm)

ToSet(seq) == {seq[n] : n \in 1..Len(seq)}

IsMutation(c) == c.op \in {"createPlaylist", "removeItems", "addItems"}

\* the calls issued while pl[k] was processed
StepCalls(k) == LET of_k(c) == c.step = k IN SelectSeq(calls, of_k)

StepMutations(k) == LET mut_k(c) == c.step = k /\ IsMutation(c) IN SelectSeq(calls, mut_k)

SmartSource(k) == pl[k].smart_list # None /\ pl[k].smart_list # <<>>

\* pl[k] is not smart and has tracks
Candidate(k) == ~SmartSource(k) /\ pl[k].has_contents /\ pl[k].dj_md_contents # <<>>

Indexed(k) == pl[k].combined_name \in DOMAIN playlist_map

Snapshot(k) == playlist_map[pl[k].combined_name].track_ids

UpToDateRecorded(k) ==
    \E n \in 1..Len(skipped_playlists) :
        /\ skipped_playlists[n].name = pl[k].combined_name
        /\ skipped_playlists[n].reason = "Up to date"

\* C1 as stated: an indexed playlist whose matched identifiers are, as a set, those of
\* the snapshot is a no-op: recorded as skipped 'Up to date', and no call is issued.
SetEqualIsNoOp ==
    \A k \in 1..Len(pl) :
        (Candidate(k) /\ Indexed(k)
         /\ ToSet(Hits(pl[k].dj_md_contents, track_map)) = ToSet(Snapshot(k)))
        => /\ StepMutations(k) = <<>>
           /\ k < i => UpToDateRecorded(k)

\* C1 amended: an indexed playlist whose matched identifiers are the snapshot's, in the
\* same order, is a no-op: recorded as skipped 'Up to date', and no call is issued.
SequenceEqualIsNoOp ==
    \A k \in 1..Len(pl) :
        (Candidate(k) /\ Indexed(k) /\ Hits(pl[k].dj_md_contents, track_map) = Snapshot(k))
        => /\ StepMutations(k) = <<>>
           /\ k < i => UpToDateRecorded(k)

SequenceEqualWitness ==
    /\ pc = "done"
    /\ \E k \in 1..Len(pl) :
        /\ Candidate(k) /\ Indexed(k)
        /\ Len(Snapshot(k)) >= 2
        /\ Hits(pl[k].dj_md_contents, track_map) = Snapshot(k)
        /\ UpToDateRecorded(k)

UniqueNames(playlists) ==
    \A a, b \in 1..Len(playlists) :
        playlists[a].combined_name = playlists[b].combined_name => a = b

\* C2: when the first run completed with every call on the server succeeding, the source
\* is unchanged since and its combined names are unique, the second run creates and
\* updates nothing and issues no createPlaylist, removeItems or addItems call.
SecondRunIsNoOp ==
    (run = "second" /\ prev.all_ok /\ prev.same_source /\ UniqueNames(source))
    => /\ created_playlists = <<>>
       /\ updated_playlists = <<>>
       /\ \A n \in 1..Len(calls) : ~IsMutation(calls[n])

SecondRunWitness ==
    /\ run = "second"
    /\ pc = "done"
    /\ prev.all_ok
    /\ prev.same_source
    /\ prev.mutated
    /\ UniqueNames(source)
    /\ Len(pl) >= 2
    /\ \E n \in 1..Len(skipped_playlists) : skipped_playlists[n].reason = "Up to date"

SmartTarget(k) ==
    \E h \in 1..Len(plex_playlists) :
        plex_playlists[h].title = pl[k].combined_name /\ plex_playlists[h].smart

\* C3 as stated: a playlist that is not smart and has tracks, named like a smart playlist
\* of the server, is recorded as smart-skipped and no mutation call is issued for it.
SmartTargetSkipped ==
    \A k \in 1..Len(pl) :
        (pc \in {"loop", "done", "aborted"} /\ Candidate(k) /\ SmartTarget(k))
        => /\ StepMutations(k) = <<>>
           /\ k < i => \E n \in 1..Len(smart_playlists_skipped) :
                           smart_playlists_skipped[n] = pl[k].combined_name

\* C4: no removeItems or addItems call is issued on a playlist of the server that is
\* flagged smart.
SmartTargetNeverMutated ==
    \A n \in 1..Len(calls) :
        calls[n].op \in {"removeItems", "addItems"} => ~plex_playlists[calls[n].playlist].smart

\* a playlist is updated while a smart playlist of the same title is on the server
SmartTargetWitness ==
    \E n \in 1..Len(calls), h \in 1..Len(plex_playlists) :
        /\ calls[n].op = "addItems"
        /\ calls[n].ok
        /\ plex_playlists[h].smart
        /\ plex_playlists[h].title = calls[n].title
        /\ ~SmartSource(calls[n].step)

\* C5: a source playlist with a non-empty smart-list descriptor causes no call on the
\* server and is recorded as smart-skipped.
SmartSourceSkipped ==
    \A k \in 1..Len(pl) :
        SmartSource(k)
        => /\ StepCalls(k) = <<>>
           /\ k < i => \E n \in 1..Len(smart_playlists_skipped) :
                           smart_playlists_skipped[n] = pl[k].name

\* a smart source playlist with a matched track and no playlist of its name in the index
SmartSourceWitness ==
    /\ pc = "done"
    /\ \E k \in 1..Len(pl) :
        /\ SmartSource(k)
        /\ Hits(pl[k].dj_md_contents, track_map) # <<>>
        /\ ~Indexed(k)
        /\ \E n \in 1..Len(smart_playlists_skipped) : smart_playlists_skipped[n] = pl[k].name

\* the positions <<k, j>> of the source tracks without a hit, over the playlists in K
Unmatched(K) ==
    UNION { { <<k, j>> : j \in { j \in 1..Len(pl[k].dj_md_contents) :
                                   /\ ~FileHit(pl[k].dj_md_contents[j], track_map)
                                   /\ ~TitleHit(pl[k].dj_md_contents[j], track_map) } }
            : k \in K }

PositionTag(pos) ==
    <<pl[pos[1]].combined_name,
      pl[pos[1]].dj_md_contents[pos[2]].file_name_l,
      pl[pos[1]].dj_md_contents[pos[2]].title>>

EntryTag(e) == <<e.playlist, e.file_name, e.title>>

\* not_found_tracks has one entry per position of P, tagged alike, and no other entry
OnePerPosition(P) ==
    \A t \in {PositionTag(pos) : pos \in P}
             \cup {EntryTag(not_found_tracks[n]) : n \in 1..Len(not_found_tracks)} :
        Cardinality({n \in 1..Len(not_found_tracks) : EntryTag(not_found_tracks[n]) = t})
            = Cardinality({pos \in P : PositionTag(pos) = t})

\* C8 as stated: after a completed run the unmatched list has exactly one entry for every
\* track of every source playlist that has no hit, tagged with the playlist's combined
\* name, and no other entry.
UnmatchedOfEveryPlaylist ==
    pc = "done" => OnePerPosition(Unmatched(1..Len(pl)))

\* C8 amended: ... for every track without a hit of every source playlist that is not
\* smart ...
UnmatchedComplete ==
    pc = "done" => OnePerPosition(Unmatched({k \in 1..Len(pl) : ~SmartSource(k)}))

\* the same unmatched track twice in a playlist
UnmatchedWitness ==
    /\ pc = "done"
    /\ \E n, m \in 1..Len(not_found_tracks) : n # m /\ not_found_tracks[n] = not_found_tracks[m]

\* C9: a playlist that is not smart, has tracks and is absent from the playlist index
\* gets one createPlaylist call with its combined name and its matched tracks in source
\* order, no other call, and is recorded as created with the number of matched tracks.
CreateWhenAbsent ==
    \A k \in 1..Len(pl) :
        (Candidate(k) /\ ~Indexed(k))
        => /\ Len(StepCalls(k)) <= 1
           /\ \A n \in 1..Len(StepCalls(k)) :
                  /\ StepCalls(k)[n].op = "createPlaylist"
                  /\ StepCalls(k)[n].title = pl[k].combined_name
                  /\ StepCalls(k)[n].items = Hits(pl[k].dj_md_contents, track_map)
           /\ (pc \in {"loop", "done", "aborted"} /\ k < i)
              => /\ Len(StepCalls(k)) = 1
                 /\ \E n \in 1..Len(created_playlists) :
                        created_playlists[n] =
                            [name |-> pl[k].combined_name,
                             tracks |-> Len(Hits(pl[k].dj_md_contents, track_map))]

\* a create that leaves an unmatched track out and keeps two matched ones in order
CreateWitness ==
    /\ pc = "done"
    /\ \E k \in 1..Len(pl) :
        /\ Candidate(k) /\ ~Indexed(k)
        /\ Len(StepCalls(k)) = 1
        /\ StepCalls(k)[1].items # <<>>
        /\ Len(StepCalls(k)[1].items) < Len(pl[k].dj_md_contents)
        /\ plex_playlists[Len(plex_playlists)].items = StepCalls(k)[1].items

\* C10: the update of an indexed playlist whose matched identifiers differ from the
\* snapshot issues the removal of all the items the playlist holds before addItems,
\* addItems gets the matched tracks in source order, and when the calls succeed the
\* playlist holds exactly the matched tracks.
UpdateIsFullReplace ==
    [][(/\ pc = "loop" /\ i <= Len(pl)
        /\ Candidate(i) /\ Indexed(i)
        /\ Hits(pl[i].dj_md_contents, track_map) # Snapshot(i))
       => LET h == playlist_map[pl[i].combined_name].playlist
              cur == plex_playlists[h].items
              tracks == Hits(pl[i].dj_md_contents, track_map)
              new == SubSeq(calls', Len(calls) + 1, Len(calls'))
              muts == SelectSeq(new, IsMutation)
          IN  /\ Len(muts) \in {1, 2}
              /\ muts[Len(muts)].op = "addItems"
              /\ muts[Len(muts)].playlist = h
              /\ muts[Len(muts)].items = tracks
              /\ Len(muts) = 2 => /\ muts[1].op = "removeItems"
                                  /\ muts[1].playlist = h
                                  /\ muts[1].items = cur
              /\ (new[1].ok /\ cur # <<>>) => Len(muts) = 2
              /\ (\A n \in 1..Len(new) : new[n].ok) => plex_playlists'[h].items = tracks
      ]_vars

\* an update whose removal and addition both succeeded, replacing other items
UpdateWitness ==
    \E n \in 1..Len(calls) :
        /\ n < Len(calls)
        /\ calls[n].op = "removeItems" /\ calls[n].ok
        /\ calls[n + 1].op = "addItems" /\ calls[n + 1].ok
        /\ calls[n + 1].items # <<>>
        /\ ToSet(calls[n].items) # ToSet(calls[n + 1].items)
        /\ pc = "loop" /\ i = calls[n].step + 1
        /\ plex_playlists[calls[n].playlist].items = calls[n + 1].items

\* the calls a step adds to the log
NewCalls == SubSeq(calls', Len(calls) + 1, Len(calls'))

\* C11: when items() or removeItems fails during an update, addItems is still called on
\* the same playlist with the matched tracks in source order; when addItems returns, the
\* playlist is recorded as updated and the loop moves on to the next source playlist.
RemovalFailureIsNotFatal ==
    [][(/\ pc = "loop" /\ i <= Len(pl)
        /\ \E n \in 1..Len(NewCalls) :
               NewCalls[n].op \in {"items", "removeItems"} /\ ~NewCalls[n].ok)
       => LET last == NewCalls[Len(NewCalls)]
              tracks == Hits(pl[i].dj_md_contents, track_map)
          IN  /\ last.op = "addItems"
              /\ last.playlist = playlist_map[pl[i].combined_name].playlist
              /\ last.items = tracks
              /\ last.ok =>
                    /\ pc' = "loop"
                    /\ i' = i + 1
                    /\ Len(updated_playlists') = Len(updated_playlists) + 1
                    /\ updated_playlists'[Len(updated_playlists')].name = pl[i].combined_name
                    /\ updated_playlists'[Len(updated_playlists')].new_tracks = Len(tracks)
      ]_vars

\* a removal failed, the add went through, and the next source playlist got its call too
RemovalFailureWitness ==
    \E n \in 1..Len(calls) :
        /\ n + 2 <= Len(calls)
        /\ calls[n].op = "removeItems" /\ ~calls[n].ok
        /\ calls[n + 1].op = "addItems" /\ calls[n + 1].ok
        /\ calls[n + 1].step = calls[n].step
        /\ calls[n + 2].step = calls[n].step + 1
        /\ \E m \in 1..Len(updated_playlists) :
               updated_playlists[m].name = calls[n].title

\* C12 as stated: after an update in which fetching or removing the current items
\* failed and addItems succeeded, the playlist's membership is the matched track set.
AddRestoresMembership ==
    \A n \in 1..Len(calls) :
        (/\ n = Len(calls)
         /\ calls[n].op = "addItems" /\ calls[n].ok
         /\ \E m \in 1..(n - 1) : calls[m].step = calls[n].step /\ ~calls[m].ok)
        => ToSet(plex_playlists[calls[n].playlist].items) = ToSet(calls[n].items)

\* C13: a source playlist that is not smart and has no tracks, or no track list, is
\* recorded as skipped with reason 'No tracks' and nothing else happens: no call is
\* issued, no playlist on the server changes, the unmatched list is left as it is.
EmptyIsSkipped ==
    [][(/\ pc = "loop" /\ i <= Len(pl)
        /\ ~SmartSource(i)
        /\ (~pl[i].has_contents \/ Len(pl[i].dj_md_contents) = 0))
       => /\ skipped_playlists' =
                 Append(skipped_playlists, [name |-> pl[i].combined_name, reason |-> "No tracks"])
          /\ i' = i + 1
          /\ pc' = "loop"
          /\ calls' = calls
          /\ plex_playlists' = plex_playlists
          /\ not_found_tracks' = not_found_tracks
          /\ UNCHANGED <<created_playlists, updated_playlists, smart_playlists_skipped>>
      ]_vars

\* an empty source playlist whose name is indexed on the server was skipped
EmptyIsSkippedWitness ==
    \E n \in 1..Len(skipped_playlists) :
        /\ skipped_playlists[n].reason = "No tracks"
        /\ skipped_playlists[n].name \in DOMAIN playlist_map
        /\ calls = <<>>
        /\ pc = "done"

Outcomes ==
    Len(created_playlists) + Len(updated_playlists) + Len(skipped_playlists)
        + Len(smart_playlists_skipped)

\* C14: each source playlist the loop has passed is in one of the four lists, once: the
\* lengths add up to the number of playlists passed, and in a completed run to the
\* number of source playlists.
OneOutcomeEach ==
    /\ pc \in {"loop", "done"} => Outcomes = i - 1
    /\ pc = "done" => Outcomes = Len(pl) /\ pl = source

\* a completed run over two playlists that ended in different lists
OneOutcomeWitness ==
    /\ pc = "done"
    /\ Len(pl) = 2
    /\ Len(skipped_playlists) = 1
    /\ Len(created_playlists) + Len(updated_playlists) + Len(smart_playlists_skipped) = 1

\* C15 as stated: a createPlaylist or addItems call that fails does not abort the run.
MutationFailureIsNotFatal ==
    (\E n \in 1..Len(calls) : calls[n].op \in {"createPlaylist", "addItems"} /\ ~calls[n].ok)
    => pc # "aborted"

NoIndex == track_map = [by_filename |-> EmptyMap, by_title |-> EmptyMap] /\ playlist_map = EmptyMap

NoReport ==
    /\ created_playlists = <<>> /\ updated_playlists = <<>> /\ skipped_playlists = <<>>
    /\ smart_playlists_skipped = <<>> /\ not_found_tracks = <<>>

\* C16: when loading the source or connecting fails the run ends there: no index has
\* been built, no call has been issued, no outcome is recorded, not-found.json and the
\* server's playlists are as they were; and an aborted run does nothing more.
LoadOrConnectFailureAborts ==
    [][/\ (pc \in {"start", "loaded"} /\ pc' = "aborted")
          => /\ NoIndex' /\ NoReport'
             /\ calls' = <<>>
             /\ not_found_file' = not_found_file
             /\ plex_playlists' = plex_playlists
       /\ (pc = "aborted" /\ run' = run)
          => /\ UNCHANGED <<track_map, playlist_map, calls, not_found_file, plex_playlists>>
             /\ UNCHANGED report
      ]_vars

\* the second run failed to load the source; the file the first run wrote is still there
LoadFailureWitness ==
    /\ run = "second"
    /\ pc = "aborted"
    /\ source # <<>> /\ pl = <<>>
    /\ prev.had_file /\ not_found_file.exists
    /\ not_found_file.content # <<>>

\* C17: a run that completes with unmatched tracks leaves not-found.json holding exactly
\* its own list, in order, whatever the file held before; the file changes at no other
\* moment than after the last source playlist.
ExportHoldsThisRun ==
    [][/\ (pc' = "done" /\ pc = "loop" /\ not_found_tracks' # <<>>)
          => not_found_file' = [exists |-> TRUE, content |-> not_found_tracks']
       /\ not_found_file' # not_found_file
          => pc = "loop" /\ i > Len(pl) /\ pc' = "done"
      ]_vars

\* the second run ended with unmatched tracks over the file the first run had written
ExportWitness ==
    /\ run = "second"
    /\ pc = "done"
    /\ prev.had_file
    /\ not_found_tracks # <<>>
    /\ not_found_file.content = not_found_tracks

\* C18 as stated: the 'not_found' of a successful sync_playlists call is the number of
\* source tracks its own run left unmatched.
NotFoundIsThisRun ==
    (caller = "lib" /\ result.returned /\ result.success)
    => result.not_found = Len(not_found_tracks)

\* C19: when sync_playlists has returned, sys.argv is what it was before the call; a run
\* that raised, at whatever step, is reported as success = False with the error string,
\* and success = True is returned only for a run that completed.
FailuresAreValues ==
    (caller = "lib" /\ result.returned)
    => /\ sys_argv = HostArgv
       /\ pc = "aborted" => result = Failure
       /\ result.success => pc = "done"

\* a call whose run raised in a target mutation call has returned the failure value
FailuresAreValuesWitness ==
    /\ caller = "lib"
    /\ result.returned
    /\ ~result.success
    /\ pc = "aborted"
    /\ calls # <<>> /\ ~calls[Len(calls)].ok
    /\ sys_argv = HostArgv

IsFlag(token) == token \in {"-v", "--verbose"}

\* the arguments of the command line that are not flags
Positional(argv) == LET arg(t) == ~IsFlag(t) IN SelectSeq(Tail(argv), arg)

\* C20 as stated: with fewer than two positional arguments the script gets no further
\* than the usage text: the source is not loaded, no call is made, no file is written.
UsageWhenArgsMissing ==
    (caller = "cli" /\ Len(Positional(sys_argv)) < 2)
    => /\ pc \in {"start", "usage_exit"}
       /\ pl = <<>>
       /\ calls = <<>>
       /\ not_found_file = NoFile

\* ---- the Logger's events
OfType(type) == LET is(e) == e.type = type IN SelectSeq(events, is)

\* C21 as stated: the playlist_updated events are, one for one and in order, the entries
\* of the updated list: same name, old_count the snapshot's track count, new_count the
\* matched track count, added their difference.
UpdatedEventCarriesCounts ==
    LET ups == OfType("playlist_updated")
    IN  /\ Len(ups) = Len(updated_playlists)
        /\ \A k \in 1..Len(ups) :
               ups[k].data = [name |-> updated_playlists[k].name,
                              old_count |-> updated_playlists[k].old_tracks,
                              new_count |-> updated_playlists[k].new_tracks,
                              added |-> updated_playlists[k].added]

\* C22 as stated: a completed run has emitted exactly one sync_complete event, as its
\* last event, with total_processed the number of source playlists.
OneSyncComplete ==
    pc = "done"
    => /\ Len(OfType("sync_complete")) = 1
       /\ events[Len(events)].type = "sync_complete"
       /\ events[Len(events)].data.total_processed = Len(pl)

StartUpEvents ==
    <<"building_track_map", "track_map_complete", "building_playlist_map",
      "playlist_map_complete", "rekordbox_playlists_found">>

OutcomeEvents ==
    {"creating_playlist", "playlist_created", "playlist_updating", "playlist_updated",
     "playlist_up_to_date"}

\* C27: the events come in the order building_track_map, track_map_complete,
\* building_playlist_map, playlist_map_complete, rekordbox_playlists_found, and only
\* then events of playlists; a playlist's processing_playlist precedes its other events;
\* playlist_created follows creating_playlist and a createPlaylist call of that step
\* that returned, playlist_updated follows playlist_updating and an addItems call of
\* that step that returned.
EventOrder ==
    \A n \in 1..Len(events) :
        LET e == events[n]
        IN  /\ n <= Len(StartUpEvents) => e.type = StartUpEvents[n] /\ e.step = 0
            /\ n > Len(StartUpEvents) =>
                   /\ e.type \in OutcomeEvents \cup {"processing_playlist", "sync_complete"}
                   /\ e.step >= 1
                   /\ events[n - 1].step <= e.step
            /\ e.type = "processing_playlist" =>
                   /\ e.data.name = pl[e.step].name
                   /\ events[n - 1].step < e.step
            /\ e.type \in OutcomeEvents =>
                   \E m \in 1..(n - 1) :
                       events[m].type = "processing_playlist" /\ events[m].step = e.step
            /\ e.type = "playlist_created" =>
                   /\ events[n - 1].type = "creating_playlist"
                   /\ events[n - 1].step = e.step
                   /\ events[n - 1].after = e.after - 1
                   /\ e.after \in 1..Len(calls)
                   /\ calls[e.after].op = "createPlaylist"
                   /\ calls[e.after].step = e.step
                   /\ calls[e.after].ok
            /\ e.type = "playlist_updated" =>
                   /\ events[n - 1].type = "playlist_updating"
                   /\ events[n - 1].step = e.step
                   /\ events[n - 1].after < e.after
                   /\ e.after \in 1..Len(calls)
                   /\ calls[e.after].op = "addItems"
                   /\ calls[e.after].step = e.step
                   /\ calls[e.after].ok

\* a completed run that created one playlist and updated another
EventOrderWitness ==
    /\ pc = "done"
    /\ Len(OfType("playlist_created")) = 1
    /\ Len(OfType("playlist_updated")) = 1
    /\ Len(OfType("processing_playlist")) = 2
    /\ events[Len(events)].type = "sync_complete"

\* C28: a playlist that is not smart, has tracks none of which has a hit, and is absent
\* from the playlist index gets one createPlaylist call with its combined name and no
\* items; when the call returns it is recorded as created with 0 tracks; each of its
\* tracks has its entry in the unmatched list.
EmptyCreate ==
    \A k \in 1..Len(pl) :
        (/\ Candidate(k) /\ ~Indexed(k)
         /\ Hits(pl[k].dj_md_contents, track_map) = <<>>
         /\ pc \in {"loop", "done", "aborted"}
         /\ (k < i \/ StepCalls(k) # <<>>))
        => /\ Len(StepCalls(k)) = 1
           /\ StepCalls(k)[1].op = "createPlaylist"
           /\ StepCalls(k)[1].title = pl[k].combined_name
           /\ StepCalls(k)[1].items = <<>>
           /\ StepCalls(k)[1].ok =>
                  \E n \in 1..Len(created_playlists) :
                      created_playlists[n] = [name |-> pl[k].combined_name, tracks |-> 0]
           /\ \A j \in 1..Len(pl[k].dj_md_contents) :
                  \E n \in 1..Len(not_found_tracks) :
                      EntryTag(not_found_tracks[n]) = PositionTag(<<k, j>>)
           /\ Cardinality({n \in 1..Len(not_found_tracks) :
                              not_found_tracks[n].playlist = pl[k].combined_name})
                  >= Len(pl[k].dj_md_contents)

\* a playlist of two tracks without a hit was created empty
EmptyCreateWitness ==
    /\ pc = "done"
    /\ Len(pl) = 1
    /\ Len(pl[1].dj_md_contents) = 2
    /\ created_playlists = <<[name |-> pl[1].combined_name, tracks |-> 0]>>
    /\ Len(not_found_tracks) = 2
    /\ plex_playlists # <<>>
    /\ plex_playlists[Len(plex_playlists)].items = <<>>
    /\ plex_playlists[Len(plex_playlists)].title = pl[1].combined_name

\* the position on the server of the playlist that the createPlaylist call calls[n] made
CreatedAt(n) ==
    (Len(plex_playlists) + (IF calls[n].ok THEN 0 ELSE 1))
        - Cardinality({m \in (n + 1)..Len(calls) :
                          calls[m].op = "createPlaylist" /\ calls[m].ok})

\* the target playlist that the mutation call calls[n] writes
Target(n) == IF calls[n].op = "createPlaylist" THEN CreatedAt(n) ELSE calls[n].playlist

\* C26: in a run over source playlists with unique combined names, the mutation calls
\* that write one target playlist all come from the step of one source playlist: two
\* mutation calls of different steps write different playlists.
OneWriterPerTarget ==
    UniqueNames(pl)
    => \A a \in 1..Len(calls) :
           \A b \in (a + 1)..Len(calls) :
               (/\ calls[a].step # calls[b].step
                /\ IsMutation(calls[a]) /\ IsMutation(calls[b]))
               => Target(a) # Target(b)

\* two playlists were updated, and a run that updated one and created the other
OneWriterWitness ==
    /\ pc = "done"
    /\ UniqueNames(pl)
    /\ Len(updated_playlists) = 2
    /\ \E a, b \in 1..Len(calls) :
           /\ calls[a].op = "removeItems" /\ calls[b].op = "addItems"
           /\ calls[a].step # calls[b].step
           /\ Target(a) # Target(b)

\* C25: when the loop starts each index has been built once and no playlist has been
\* processed; from then on no step of the run changes track_map or playlist_map,
\* snapshots included.
IndexesAreFrozen ==
    [][/\ (pc = "track_map" /\ pc' = "loop")
          => /\ i' = 1 /\ calls' = <<>>
             /\ track_map' = track_map
             /\ Len(SelectSeq(events', LAMBDA e : e.type = "building_track_map")) = 1
             /\ Len(SelectSeq(events', LAMBDA e : e.type = "building_playlist_map")) = 1
       /\ (pc \in {"loop", "done"} /\ run' = run)
          => track_map' = track_map /\ playlist_map' = playlist_map
      ]_vars

\* after a create and an update the index knows neither: the created playlist has no
\* entry and the updated one's snapshot is what it held at the scan
IndexesAreFrozenWitness ==
    /\ pc = "done"
    /\ \E n \in 1..Len(created_playlists) : created_playlists[n].name \notin DOMAIN playlist_map
    /\ \E n \in 1..Len(updated_playlists) :
           LET e == playlist_map[updated_playlists[n].name]
           IN  e.track_ids # plex_playlists[e.playlist].items

RECURSIVE ArtistTracks(_)
\* the tracks of the music sections, in the order the server lists them
ArtistTracks(sections) ==
    IF sections = <<>> THEN <<>>
    ELSE (IF Head(sections).type = "artist" THEN Head(sections).tracks ELSE <<>>)
             \o ArtistTracks(Tail(sections))

BaseNames(track) == {Basename(track.parts[n]) : n \in 1..Len(track.parts)}

Titled(track) == track.title # None /\ track.title # <<>>

Last(S) == CHOOSE n \in S : \A m \in S : m <= n

\* C23: after the build the keys of by_filename are the base names of the parts of the
\* music sections' tracks and each maps to the last track listed that has such a part;
\* the keys of by_title are the lowercased titles of the tracks that have one and each
\* maps to the last track listed with that title; nothing else is in either map.
TrackIndexLastWriterWins ==
    pc \in {"track_map", "loop"}
    => LET all == ArtistTracks(plex_sections)
           withName(f) == {n \in 1..Len(all) : f \in BaseNames(all[n])}
           withTitle(t) == {n \in 1..Len(all) : Titled(all[n]) /\ Lower(all[n].title) = t}
       IN  /\ DOMAIN track_map.by_filename = UNION {BaseNames(all[n]) : n \in 1..Len(all)}
           /\ \A f \in DOMAIN track_map.by_filename :
                  track_map.by_filename[f] = all[Last(withName(f))].ratingKey
           /\ DOMAIN track_map.by_title =
                  {Lower(all[n].title) : n \in {n \in 1..Len(all) : Titled(all[n])}}
           /\ \A t \in DOMAIN track_map.by_title :
                  track_map.by_title[t] = all[Last(withTitle(t))].ratingKey

\* two tracks of the music sections share a base name and a lowercased title, a third
\* one sits in a video section, and the maps hold the second
TrackIndexWitness ==
    /\ pc = "loop"
    /\ Len(plex_sections) = 2
    /\ plex_sections[2].type = "movie" /\ plex_sections[2].tracks # <<>>
    /\ LET all == ArtistTracks(plex_sections)
       IN  /\ Len(all) = 2
           /\ all[1].title = <<"A">> /\ all[2].title = <<"a">>
           /\ BaseNames(all[1]) \cap BaseNames(all[2]) # {}
           /\ track_map.by_title[<<"a">>] = all[2].ratingKey
           /\ \A f \in BaseNames(all[2]) : track_map.by_filename[f] = all[2].ratingKey

\* C24: after the build the keys of playlist_map are the titles of the playlists that
\* are not smart; each entry is the last listed playlist of that title that is not
\* smart, with the items it held when it was scanned.
PlaylistIndexSkipsSmart ==
    pc = "loop"
    => /\ DOMAIN playlist_map =
              {plex_playlists[h].title : h \in {h \in 1..Len(plex_playlists) :
                                                   ~plex_playlists[h].smart}}
       /\ \A t \in DOMAIN playlist_map :
              LET h == playlist_map[t].playlist
              IN  /\ h \in 1..Len(plex_playlists)
                  /\ ~plex_playlists[h].smart
                  /\ plex_playlists[h].title = t
                  /\ playlist_map[t].track_ids = plex_playlists[h].items
                  /\ \A g \in 1..Len(plex_playlists) :
                         (~plex_playlists[g].smart /\ plex_playlists[g].title = t) => g <= h

\* two playlists of one title that are not smart, then a smart one of that title: the
\* entry is the second
PlaylistIndexWitness ==
    /\ pc = "loop"
    /\ Len(plex_playlists) = 3
    /\ \A h \in 1..3 : plex_playlists[h].title = "Techno"
    /\ ~plex_playlists[1].smart /\ ~plex_playlists[2].smart /\ plex_playlists[3].smart
    /\ plex_playlists[1].items # plex_playlists[2].items
    /\ playlist_map["Techno"].playlist = 2
    /\ playlist_map["Techno"].track_ids = plex_playlists[2].items

====
